---- MODULE Spec2Model ----
(***************************************************************************)
(* Model of the price-history scrapers of src/src/scrape_data.py           *)
(* (PriceHistoryScraper) and src/src/price_before.py                       *)
(* (EnhancedPriceHistoryScraper).                                          *)
(*                                                                         *)
(* Python values are tagged tuples, so that values of different Python     *)
(* types can live in one set:                                              *)
(*   <<"null">>            None / JSON null                                *)
(*   <<"num", n>>          a number                                        *)
(*   <<"str", s>>          a string                                        *)
(*   <<"list", <<...>>>>   a list                                          *)
(*   <<"dict", <<...>>>>   a dict: its items <<key, value>> in key order   *)
(*   <<"bool", b>>         a returned boolean                              *)
(*   <<"raise", e>>        an exception e leaving the call                 *)
(***************************************************************************)
EXTENDS Integers, Sequences, FiniteSets, TLC

VARIABLES
    entry,        \* which entry point of the package this behaviour exercises
    pc,           \* position inside that entry point
    cand,         \* the decoded candidate handed to validate/format (entry "shape")
    valid,        \* what validate_price_data returned for cand
    formatted,    \* what format_price_data returned for cand
    csvFile,      \* the output file: <<"nofile">> or <<"file", header, rows>>
    price_data,   \* the list built by the label/price loop of price_before.py
    calls,        \* the extraction strategies entered so far, in order
    attempts,     \* scrape_price_history: <<method, outcome>> of each iteration
    script_ret,   \* what the in-page probe script returned (or raised)
    perf_logs,    \* what driver.get_log gave the network-log extractor
    page_resp,    \* what session.get gave the page-source extractor
    loop_data,    \* scrape_price_history: what the last method returned
    product_data, \* extract_chart_data_advanced: the record being built
    result,       \* what the entry point returned
    max_workers,  \* scrape_multiple_products: size of the thread pool
    driver_pool,  \* the drivers setup_driver_pool created
    wpc,          \* position of the worker thread of each URL
    wdriver,      \* the driver get_driver gave each worker (0: none)
    driver_page,  \* the URL whose page each driver shows (0: none yet)
    wrec,         \* product_data of each worker
    futures,      \* what process_single_url returned for each URL
    collected,    \* the futures as_completed has yielded
    all_data,     \* the records appended by the as_completed loop
    successful,   \* counter of the as_completed loop
    failed,       \* counter of the as_completed loop
    written       \* products save_to_csv has written

shapeVars == <<cand, valid, formatted, price_data>>
envVars == <<script_ret, perf_logs, page_resp>>
workerVars == <<wpc, wdriver, driver_page, wrec, futures>>
mainVars == <<collected, all_data, successful, failed, written>>
multiVars == <<max_workers, driver_pool, workerVars, mainVars>>
singleVars == <<shapeVars, envVars, calls, attempts, loop_data, product_data>>
vars == <<entry, pc, cand, valid, formatted, csvFile, price_data, calls, attempts,
          script_ret, perf_logs, page_resp, loop_data, product_data, result,
          max_workers, driver_pool, wpc, wdriver, driver_page, wrec, futures,
          collected, all_data, successful, failed, written>>

-----------------------------------------------------------------------------
(* Bounds of the model *)

MaxLen == 2       \* longest labels / data array drawn exhaustively
MaxRecs == 2      \* longest record sequence drawn exhaustively

-----------------------------------------------------------------------------
(* Python values *)

PyNone == <<"null">>
Num(n) == <<"num", n>>
Str(s) == <<"str", s>>
List(s) == <<"list", s>>
Dict(items) == <<"dict", items>>
Bool(b) == <<"bool", b>>
Raise(e) == <<"raise", e>>
Unset == <<"unset">>

IsDict(d) == d[1] = "dict"
IsList(d) == d[1] = "list"
IsRaise(d) == d[1] = "raise"

\* bool(data), as `if not data` / `if data` evaluates it
Truthy(d) ==
    CASE d[1] = "null" -> FALSE
      [] d[1] = "num" -> d[2] # 0
      [] d[1] = "str" -> d[2] # ""
      [] d[1] = "list" -> Len(d[2]) > 0
      [] d[1] = "dict" -> Len(d[2]) > 0
      [] OTHER -> TRUE

\* `key in d` for a dict d
HasKey(d, k) == \E i \in 1..Len(d[2]) : d[2][i][1] = k

\* d[key] for a dict d that has the key
Get(d, k) == d[2][CHOOSE i \in 1..Len(d[2]) : d[2][i][1] = k][2]

\* `key in data` as save_to_csv evaluates it on a dict (key lookup) or a list
\* (element equality with the string)
PyIn(k, data) ==
    IF IsDict(data) THEN HasKey(data, k)
    ELSE IF IsList(data) THEN \E i \in 1..Len(data[2]) : data[2][i] = Str(k)
    ELSE FALSE

\* data[i] (1-based here) of a list
ListItem(data, i) ==
    IF i \in 1..Len(data[2]) THEN data[2][i] ELSE Raise("IndexError")

\* whether len(x) returns (TRUE) or raises TypeError (FALSE)
HasLen(x) == x[1] \in {"list", "dict", "str", "str-ymd"}

Min(a, b) == IF a <= b THEN a ELSE b

\* str.lower() on the keys the model draws
Lower(k) ==
    CASE k = "Time" -> "time"
      [] k = "VALUE" -> "value"
      [] k = "Date" -> "date"
      [] k = "Price" -> "price"
      [] OTHER -> k

price_keys == {"price", "value", "y", "amount"}
date_keys == {"date", "time", "x", "timestamp"}

-----------------------------------------------------------------------------
(* PriceHistoryScraper.validate_price_data *)

\* variant: the x/y rule left out
validate_price_data_no_xy(data) ==
    IF ~Truthy(data) THEN Bool(FALSE)
    ELSE IF IsDict(data) /\ HasKey(data, "labels") /\ HasKey(data, "data")
        THEN Bool(TRUE)
    ELSE IF IsDict(data) /\ HasKey(data, "dates") /\ HasKey(data, "prices")
        THEN Bool(TRUE)
    ELSE IF IsList(data) /\ Len(data[2]) > 0 /\ IsDict(data[2][1])
        THEN Bool((\E key \in price_keys : HasKey(data[2][1], key))
                  /\ (\E key \in date_keys : HasKey(data[2][1], key)))
    ELSE Bool(FALSE)

validate_price_data(data) ==
    IF ~Truthy(data) THEN Bool(FALSE)
    ELSE IF IsDict(data) /\ HasKey(data, "labels") /\ HasKey(data, "data")
        THEN Bool(TRUE)
    ELSE IF IsDict(data) /\ HasKey(data, "dates") /\ HasKey(data, "prices")
        THEN Bool(TRUE)
    ELSE IF IsDict(data) /\ HasKey(data, "x") /\ HasKey(data, "y")
        THEN Bool(TRUE)
    ELSE IF IsList(data) /\ Len(data[2]) > 0
        THEN LET first_item == ListItem(data, 1) IN
             IF IsRaise(first_item) THEN first_item
             ELSE IF IsDict(first_item)
                 THEN Bool((\E key \in price_keys : HasKey(first_item, key))
                           /\ (\E key \in date_keys : HasKey(first_item, key)))
             ELSE Bool(FALSE)
    ELSE Bool(FALSE)

-----------------------------------------------------------------------------
(* PriceHistoryScraper.format_price_data *)

\* variant: the keys compared as they are, without lower()
RECURSIVE ScanItem_case_sensitive(_, _, _, _)
ScanItem_case_sensitive(items, i, date_val, price_val) ==
    IF i > Len(items) THEN <<date_val, price_val>>
    ELSE IF items[i][1] \in date_keys
        THEN ScanItem_case_sensitive(items, i + 1, items[i][2], price_val)
    ELSE IF items[i][1] \in price_keys
        THEN ScanItem_case_sensitive(items, i + 1, date_val, items[i][2])
    ELSE ScanItem_case_sensitive(items, i + 1, date_val, price_val)

\* variant: a value once found is kept (the loop as if it stopped at the
\* first matching key)
RECURSIVE ScanItem_first_wins(_, _, _, _)
ScanItem_first_wins(items, i, date_val, price_val) ==
    IF i > Len(items) THEN <<date_val, price_val>>
    ELSE LET key == items[i][1]
             value == items[i][2]
         IN  IF Lower(key) \in date_keys
                 THEN ScanItem_first_wins(items, i + 1,
                          IF date_val = PyNone THEN value ELSE date_val, price_val)
             ELSE IF Lower(key) \in price_keys
                 THEN ScanItem_first_wins(items, i + 1, date_val,
                          IF price_val = PyNone THEN value ELSE price_val)
             ELSE ScanItem_first_wins(items, i + 1, date_val, price_val)

\* the loop over item.items(): the value left in date_val / price_val
RECURSIVE ScanItem(_, _, _, _)
ScanItem(items, i, date_val, price_val) ==
    IF i > Len(items) THEN <<date_val, price_val>>
    ELSE LET key == items[i][1]
             value == items[i][2]
         IN  IF Lower(key) \in date_keys
                 THEN ScanItem(items, i + 1, value, price_val)
             ELSE IF Lower(key) \in price_keys
                 THEN ScanItem(items, i + 1, date_val, value)
             ELSE ScanItem(items, i + 1, date_val, price_val)

\* the loop over the list: the labels and data lists appended to
RECURSIVE FormatList(_, _, _, _)
FormatList(seq, i, labels, data) ==
    IF i > Len(seq) THEN <<labels, data>>
    ELSE LET item == seq[i] IN
         IF IsDict(item)
             THEN LET dp == ScanItem(item[2], 1, PyNone, PyNone) IN
                  IF dp[1] # PyNone /\ dp[2] # PyNone
                      THEN FormatList(seq, i + 1, Append(labels, dp[1]),
                                      Append(data, dp[2]))
                  ELSE FormatList(seq, i + 1, labels, data)
         ELSE FormatList(seq, i + 1, labels, data)

Formatted(labels, data) == Dict(<< <<"labels", labels>>, <<"data", data>> >>)

format_price_data(data) ==
    IF IsDict(data)
        THEN IF HasKey(data, "labels") /\ HasKey(data, "data") THEN data
             ELSE IF HasKey(data, "dates") /\ HasKey(data, "prices")
                 THEN Formatted(Get(data, "dates"), Get(data, "prices"))
             ELSE Formatted(List(<<>>), List(<<>>))
    ELSE IF IsList(data)
        THEN LET ld == FormatList(data[2], 1, <<>>, <<>>) IN
             Formatted(List(ld[1]), List(ld[2]))
    ELSE Formatted(List(<<>>), List(<<>>))

-----------------------------------------------------------------------------
(* PriceHistoryScraper.save_to_csv *)

NoFile == <<"nofile">>
File(header, rows) == <<"file", header, rows>>

\* variant: the pairs in reverse order
zip_reversed(a, b) ==
    LET n == Min(Len(a), Len(b)) IN [i \in 1..n |-> <<a[n + 1 - i], b[n + 1 - i]>>]

\* zip(a, b) of two lists: pairs up to the shorter one
zip(a, b) == [i \in 1..Min(Len(a), Len(b)) |-> <<a[i], b[i]>>]

\* save_to_csv(data, filename) on a file system where open() fails iff openFails.
\* Returns <<returned boolean, the file afterwards>>.
save_to_csv(data, openFails, before) ==
    IF ~Truthy(data) \/ ~PyIn("labels", data) \/ ~PyIn("data", data)
        THEN <<FALSE, before>>
    ELSE IF openFails THEN <<FALSE, before>>
    \* data['labels'] on a list raises inside the try, after the header row
    ELSE IF ~IsDict(data) THEN <<FALSE, File(<<"Date", "Price">>, <<>>)>>
    ELSE LET labels == Get(data, "labels")
             prices == Get(data, "data")
         IN  IF ~IsList(labels) \/ ~IsList(prices)
                 \* zip() of a non-iterable raises after the header was written
                 THEN <<FALSE, File(<<"Date", "Price">>, <<>>)>>
             ELSE <<TRUE, File(<<"Date", "Price">>, zip(labels[2], prices[2]))>>

-----------------------------------------------------------------------------
(* EnhancedPriceHistoryScraper.extract_chart_data_advanced: the label/price *)
(* loop applied to what the probe script returned                           *)

Point(date, price) == Dict(<< <<"date", date>>, <<"price", price>> >>)

\* chart_data.get(key): the value, or None when the key is absent
DictGet(d, k) == IF HasKey(d, k) THEN Get(d, k) ELSE PyNone

\* variant: a point for every label, the price None past the end of prices
RECURSIVE PairLoop_every_label(_, _, _, _)
PairLoop_every_label(labels, prices, i, acc) ==
    IF i > Len(labels) THEN List(acc)
    ELSE PairLoop_every_label(labels, prices, i + 1,
             Append(acc, Point(labels[i], IF i <= Len(prices) THEN prices[i] ELSE PyNone)))

RECURSIVE PairLoop(_, _, _, _)
PairLoop(labels, prices, i, acc) ==
    IF i > Len(labels) THEN List(acc)
    ELSE IF i <= Len(prices)
        THEN PairLoop(labels, prices, i + 1, Append(acc, Point(labels[i], prices[i])))
    ELSE PairLoop(labels, prices, i + 1, acc)

\* lines 257-269: the new price_data, or `before` when the condition is false,
\* or the exception the block raises
pair_chart_data(chart_data, before) ==
    IF ~Truthy(chart_data) THEN before
    ELSE IF ~IsDict(chart_data) THEN Raise("AttributeError")
    ELSE IF ~Truthy(DictGet(chart_data, "labels")) \/ ~Truthy(DictGet(chart_data, "data"))
        THEN before
    ELSE LET labels == Get(chart_data, "labels")
             prices == Get(chart_data, "data")
         IN  IF ~IsList(labels) \/ ~IsList(prices) THEN Raise("TypeError")
             ELSE PairLoop(labels[2], prices[2], 1, <<>>)

-----------------------------------------------------------------------------
(* datetime: a date is its proleptic Gregorian ordinal (date.toordinal()),   *)
(* and strftime('%Y-%m-%d') turns it into the year-month-day text            *)

IsLeap(y) == (y % 4 = 0) /\ ((y % 100 # 0) \/ (y % 400 = 0))

DaysInMonth(y, m) ==
    IF m = 2 THEN (IF IsLeap(y) THEN 29 ELSE 28)
    ELSE IF m \in {4, 6, 9, 11} THEN 30 ELSE 31

DaysBeforeYear(y) ==
    (y - 1) * 365 + ((y - 1) \div 4) - ((y - 1) \div 100) + ((y - 1) \div 400)

RECURSIVE DaysBeforeMonth(_, _)
DaysBeforeMonth(y, m) ==
    IF m = 1 THEN 0 ELSE DaysBeforeMonth(y, m - 1) + DaysInMonth(y, m - 1)

\* datetime(y, m, d)
datetime(y, m, d) == DaysBeforeYear(y) + DaysBeforeMonth(y, m) + d

RECURSIVE YearOf(_, _)
YearOf(n, y) == IF n <= DaysBeforeYear(y + 1) THEN y ELSE YearOf(n, y + 1)

RECURSIVE MonthOf(_, _, _)
MonthOf(rest, y, m) ==
    IF rest <= DaysInMonth(y, m) THEN m ELSE MonthOf(rest - DaysInMonth(y, m), y, m + 1)

\* the text 'YYYY-MM-DD' of a date
DateStr(y, m, d) == <<"str-ymd", y, m, d>>

strftime(n) ==
    LET y == YearOf(n, (n \div 366) + 1)
        rest == n - DaysBeforeYear(y)
        m == MonthOf(rest, y, 1)
    IN  DateStr(y, m, rest - DaysBeforeMonth(y, m))

-----------------------------------------------------------------------------
(* PriceHistoryScraper.generate_sample_data *)

start_date == datetime(2022, 11, 1)
end_date == datetime(2025, 8, 2)
base_price == 2999
SampleStep == 7

\* hash(str(current_date)) % 100: Python salts str hashes per process, so the
\* value is a function of the date and of a salt the process draws
HashSalts == {0, 37, 99}
HashMod100(salt, n) == (salt + 31 * n) % 100

\* int(base_price * seasonal_factor * trend_factor * random_factor), in
\* fixed-point steps that each truncate
SamplePrice(salt, current_date) ==
    LET days == current_date - start_date
        p1 == (base_price * (3650 + (days % 365))) \div 3650
        p2 == (p1 * (18250 + days)) \div 18250
    IN  (p2 * (950 + HashMod100(salt, current_date))) \div 1000

\* variant: current_date advanced before it is appended
SampleDate_late(k) == start_date + k * SampleStep

\* current_date in the k-th run of the body of the while loop
SampleDate(k) == start_date + (k - 1) * SampleStep

\* the while loop: the number of times its body runs, which is the first n with
\* the (n+1)-th current_date past end_date (the step is at least a day, so the
\* loop ends within end_date - start_date + 1 runs)
SampleIterations ==
    CHOOSE n \in 0..(end_date - start_date + 1) :
        /\ ~(SampleDate(n + 1) <= end_date)
        /\ \A k \in 1..n : SampleDate(k) <= end_date

generate_sample_data(salt) ==
    LET n == SampleIterations IN
    Formatted(List([k \in 1..n |-> strftime(SampleDate(k))]),
              List([k \in 1..n |-> Num(SamplePrice(salt, SampleDate(k)))]))

\* the series of each salt, computed once
SampleOf == [salt \in HashSalts |-> generate_sample_data(salt)]

-----------------------------------------------------------------------------
(* PriceHistoryScraper.extract_from_network_logs *)

\* One entry of driver.get_log('performance'):
\*   <<"malformed">>                 its message does not parse / lacks a field
\*   <<"event", method, kw, fetch>>  a parsed message: its method, whether the
\*                                   response URL holds a keyword, and what
\*                                   session.get(url) then does:
\*       <<"error">>   the request raises
\*       <<"status", code, body>>  a response; body is <<"undecodable">> or
\*                                 <<"json", value>>
LogMalformed == <<"malformed">>
LogEvent(method, kw, fetch) == <<"event", method, kw, fetch>>
FetchError == <<"error">>
FetchStatus(code, body) == <<"status", code, body>>
Undecodable == <<"undecodable">>
Json(v) == <<"json", v>>

RECURSIVE ScanLogs(_, _)
ScanLogs(logs, i) ==
    IF i > Len(logs) THEN PyNone
    ELSE LET log == logs[i] IN
         \* json.loads / the key lookups raise: the outer except ends the scan
         IF log[1] = "malformed" THEN PyNone
         ELSE IF log[2] = "Network.responseReceived" /\ log[3]
             THEN LET fetch == log[4] IN
                  IF fetch[1] = "error" THEN ScanLogs(logs, i + 1)
                  ELSE IF fetch[2] = 200
                      THEN IF fetch[3][1] = "undecodable" THEN ScanLogs(logs, i + 1)
                           ELSE IF validate_price_data(fetch[3][2]) = Bool(TRUE)
                               THEN format_price_data(fetch[3][2])
                           ELSE ScanLogs(logs, i + 1)
                  ELSE ScanLogs(logs, i + 1)
         ELSE ScanLogs(logs, i + 1)

\* logs: what driver.get_log returns, or the exception it raises
extract_from_network_logs(logs) ==
    IF IsRaise(logs) THEN PyNone ELSE ScanLogs(logs[2], 1)

-----------------------------------------------------------------------------
(* PriceHistoryScraper.extract_from_page_source *)

\* The page is the exception session.get / raise_for_status raises, or
\* <<"page", scripts>>. A script is <<"nostring">> (script.string is None) or
\* <<"script", m>> with m[p] the list re.findall gives for pattern p; a match
\* is <<"undecodable">> or <<"json", value>>, what json.loads makes of it.
NumPatterns == 5
NoString == <<"nostring">>
Script(m) == <<"script", m>>
Page(scripts) == <<"page", scripts>>

\* the matches of one pattern: <<"found", data>> for the return, <<"next">> when
\* the loop ends or json.loads raises (the except continues with the next pattern)
RECURSIVE ScanMatches(_, _)
ScanMatches(matches, k) ==
    IF k > Len(matches) THEN <<"next">>
    ELSE IF matches[k][1] = "undecodable" THEN <<"next">>
    ELSE IF validate_price_data(matches[k][2]) = Bool(TRUE)
        THEN <<"found", format_price_data(matches[k][2])>>
    ELSE ScanMatches(matches, k + 1)

RECURSIVE ScanPatterns(_, _)
ScanPatterns(m, p) ==
    IF p > NumPatterns THEN <<"next">>
    ELSE LET r == ScanMatches(m[p], 1) IN
         IF r[1] = "found" THEN r ELSE ScanPatterns(m, p + 1)

RECURSIVE ScanScripts(_, _)
ScanScripts(scripts, s) ==
    IF s > Len(scripts) THEN PyNone
    ELSE IF scripts[s][1] = "nostring" THEN ScanScripts(scripts, s + 1)
    ELSE LET r == ScanPatterns(scripts[s][2], 1) IN
         IF r[1] = "found" THEN r[2] ELSE ScanScripts(scripts, s + 1)

extract_from_page_source(page) ==
    IF IsRaise(page) THEN PyNone ELSE ScanScripts(page[2], 1)

-----------------------------------------------------------------------------
(* PriceHistoryScraper.extract_chart_data_selenium *)

\* nav: TRUE when driver.get and the wait for the canvas return, FALSE when one
\* of them raises; script: what execute_script returns or raises; logs: what
\* driver.get_log gives if it is asked.
\* Returns the value returned and the extractors entered, in order ("script"
\* is this method itself, "network" is extract_from_network_logs).
extract_chart_data_selenium(nav, script, logs) ==
    IF ~nav THEN [ret |-> PyNone, ran |-> <<"script">>]
    ELSE IF IsRaise(script) THEN [ret |-> PyNone, ran |-> <<"script">>]
    ELSE IF Truthy(script)
        \* len(chart_data.get('labels', [])) for the log line
        THEN IF ~IsDict(script) THEN [ret |-> PyNone, ran |-> <<"script">>]
             ELSE IF HasKey(script, "labels") /\ ~HasLen(Get(script, "labels"))
                 THEN [ret |-> PyNone, ran |-> <<"script">>]
             ELSE [ret |-> script, ran |-> <<"script">>]
    ELSE [ret |-> extract_from_network_logs(logs), ran |-> <<"script", "network">>]

-----------------------------------------------------------------------------
(* Text: a Python str whose characters matter is <<"text", chars>>, chars a  *)
(* sequence of one-character strings                                         *)

Text(chars) == <<"text", chars>>
IsSpace(c) == c = " "
\* the characters the pattern [^\w\s-] removes: everything but word characters,
\* white space and the hyphen. Of the characters the model draws these are
Punctuation == {"!", "<", ">", "."}
IsRemoved(c) == c \in Punctuation

\* bool(s) of a str
TextTruthy(t) == t[1] = "text" /\ Len(t[2]) > 0

RECURSIVE LStrip(_)
LStrip(cs) == IF cs # <<>> /\ IsSpace(Head(cs)) THEN LStrip(Tail(cs)) ELSE cs

RECURSIVE RStrip(_)
RStrip(cs) ==
    IF cs # <<>> /\ IsSpace(cs[Len(cs)]) THEN RStrip(SubSeq(cs, 1, Len(cs) - 1)) ELSE cs

\* str.strip()
Strip(cs) == RStrip(LStrip(cs))

\* str.split(): the maximal runs of non-space characters
RECURSIVE SplitFrom(_, _, _)
SplitFrom(cs, word, words) ==
    IF cs = <<>> THEN (IF word = <<>> THEN words ELSE Append(words, word))
    ELSE IF IsSpace(Head(cs))
        THEN SplitFrom(Tail(cs), <<>>, IF word = <<>> THEN words ELSE Append(words, word))
    ELSE SplitFrom(Tail(cs), Append(word, Head(cs)), words)

Split(cs) == SplitFrom(cs, <<>>, <<>>)

\* re.sub(r'[^\w\s-]', '', s)
RECURSIVE ReSub(_)
ReSub(cs) ==
    IF cs = <<>> THEN <<>>
    ELSE IF IsRemoved(Head(cs)) THEN ReSub(Tail(cs))
    ELSE <<Head(cs)>> \o ReSub(Tail(cs))

UnknownProduct == Text(<<"U","n","k","n","o","w","n"," ","P","r","o","d","u","c","t">>)
UnknownBrand == Text(<<"U","n","k","n","o","w","n"," ","B","r","a","n","d">>)

-----------------------------------------------------------------------------
(* EnhancedPriceHistoryScraper.extract_product_info *)

\* The parsed HTML, as far as the function looks at it:
\*   sel[i]  the text of the first element the i-th title selector matches, or
\*           None when it matches nothing
\*   meta    the content of the og:title meta tag, None when there is no such
\*           tag (a tag without content has the empty content)
NumSelectors == 4

RECURSIVE FirstElement(_, _)
FirstElement(sel, i) ==
    IF i > NumSelectors THEN PyNone
    ELSE IF sel[i] # PyNone THEN Text(Strip(sel[i][2]))   \* get_text(strip=True)
    ELSE FirstElement(sel, i + 1)

extract_product_info(html) ==
    LET t1 == FirstElement(html.sel, 1)
        title == IF ~TextTruthy(t1)
                     THEN IF html.meta # PyNone THEN Text(Strip(html.meta[2])) ELSE t1
                 ELSE t1
        words == IF TextTruthy(title) THEN Split(title[2]) ELSE <<>>
        brand == IF words # <<>> THEN Text(Strip(ReSub(words[1]))) ELSE PyNone
    IN  [title |-> IF TextTruthy(title) THEN title ELSE UnknownProduct,
         brand |-> IF TextTruthy(brand) THEN brand ELSE UnknownBrand]

-----------------------------------------------------------------------------
(* EnhancedPriceHistoryScraper.extract_price_from_html *)

\* The script blocks of the HTML text: scripts[s][p] is the list re.findall
\* gives for pattern p in block s. A match is <<"match", brackets, decoded>>:
\* whether it holds both '[' and ']', and what json.loads makes of '[' + match
\* + ']': <<"undecodable">> or <<"json", list>>.
NumHtmlPatterns == 4
MinPrices == 10
HtmlMatch(brackets, decoded) == <<"match", brackets, decoded>>

\* the dates made up for the prices found: weekly from 2022-11-01
HtmlPoints(prices) ==
    List([i \in 1..Len(prices) |->
            Point(strftime(datetime(2022, 11, 1) + (i - 1) * 7), prices[i])])

RECURSIVE HtmlMatches(_, _)
HtmlMatches(matches, k) ==
    IF k > Len(matches) THEN <<"next">>
    ELSE IF ~matches[k][2] THEN HtmlMatches(matches, k + 1)
    ELSE IF matches[k][3][1] = "undecodable" THEN <<"next">>
    ELSE LET decoded == matches[k][3][2] IN
         IF Len(decoded[2]) > MinPrices THEN <<"found", HtmlPoints(decoded[2])>>
         ELSE HtmlMatches(matches, k + 1)

RECURSIVE HtmlPatterns(_, _)
HtmlPatterns(m, p) ==
    IF p > NumHtmlPatterns THEN <<"next">>
    ELSE LET r == HtmlMatches(m[p], 1) IN
         IF r[1] = "found" THEN r ELSE HtmlPatterns(m, p + 1)

RECURSIVE HtmlScripts(_, _)
HtmlScripts(scripts, s) ==
    IF s > Len(scripts) THEN List(<<>>)
    ELSE LET r == HtmlPatterns(scripts[s], 1) IN
         IF r[1] = "found" THEN r[2] ELSE HtmlScripts(scripts, s + 1)

extract_price_from_html(html) == HtmlScripts(html.scripts, 1)

-----------------------------------------------------------------------------
(* EnhancedPriceHistoryScraper.generate_sample_price_data *)

\* The random module is a stream of draws that the process's seed fixes. A
\* stream is the cycle of seven day intervals random.randint(1, 7) returns; the
\* other draws of an iteration are read off the same position of the cycle.
RandStreams == { <<7, 7, 7, 7, 7, 7, 7>>, <<1, 1, 1, 1, 1, 1, 1>>, <<3, 1, 7, 2, 5, 4, 6>> }
BasePrices == {2000, 50000}      \* ends of random.randint(2000, 50000)
MinPrice == 100

RECURSIVE CycleSum(_, _)
CycleSum(stream, j) == IF j = 0 THEN 0 ELSE CycleSum(stream, j - 1) + stream[j]

\* the days added to start_date before the k-th run of the loop body
DaysBefore(stream, k) ==
    CycleSum(stream, 7) * ((k - 1) \div 7) + CycleSum(stream, (k - 1) % 7)

VarDate(stream, k) == start_date + DaysBefore(stream, k)

VarIterations(stream) ==
    CHOOSE n \in 0..(end_date - start_date + 1) :
        /\ ~(VarDate(stream, n + 1) <= end_date)
        /\ \A k \in 1..n : VarDate(stream, k) <= end_date

\* max(100, int(base * seasonal * trend * random)), in fixed-point steps that
\* each truncate; the uniform draws in per mille
VarPrice(base, stream, k) ==
    LET days == DaysBefore(stream, k)
        draw == stream[((k - 1) % 7) + 1]
        trend == (draw - 4) * 30            \* random.uniform(-0.1, 0.1)
        noise == (4 - draw) * 15            \* random.uniform(-0.05, 0.05)
        p1 == (base * (3650 + (days % 365))) \div 3650
        p2 == (p1 * (1000 + ((trend * days) \div 365))) \div 1000
        p3 == (p2 * (1000 + noise)) \div 1000
    IN  IF p3 < MinPrice THEN MinPrice ELSE p3

generate_sample_price_data(base, stream) ==
    List([k \in 1..VarIterations(stream) |->
            Point(strftime(VarDate(stream, k)), Num(VarPrice(base, stream, k)))])

\* the series of each base price and stream, computed once
SamplePricesOf ==
    [base \in BasePrices, stream \in RandStreams |-> generate_sample_price_data(base, stream)]

-----------------------------------------------------------------------------
(* The decoded candidates the model draws *)

SeqsUpTo(S, n) == UNION {[1..k -> S] : k \in 0..n}

DateVals == {Str("t1"), Str("t2")}
PriceVals == {Num(10), Num(20)}

\* a mapping with two keys, the first holding dates and the second prices
KeyPairs ==
    { <<"labels", "data">>, <<"data", "labels">>, <<"dates", "prices">>,
      <<"x", "y">>, <<"labels", "prices">>, <<"dates", "y">>, <<"name", "data">> }

MappingCandidates ==
    { Dict(<< <<kp[1], a>>, <<kp[2], List(b)>> >>) :
        kp \in KeyPairs,
        a \in {List(s) : s \in SeqsUpTo(DateVals, MaxLen)} \cup {PyNone},
        b \in SeqsUpTo(PriceVals, MaxLen) }
    \cup { Dict(<< <<k, List(<<Str("t1")>>)>> >>) : k \in {"labels", "data", "x", "prices"} }
    \cup { Dict(<<>>) }

\* the records and scalars a sequence candidate is made of
Rec2(k1, v1, k2, v2) == Dict(<< <<k1, v1>>, <<k2, v2>> >>)

ItemPool ==
    { Rec2("time", Str("t1"), "value", Num(10)),
      Rec2("price", Num(20), "date", Str("t2")),
      Rec2("Time", Str("t1"), "VALUE", Num(10)),
      Rec2("x", Str("t2"), "y", Num(20)),
      Rec2("time", PyNone, "value", Num(10)),
      Rec2("time", Str("t1"), "value", PyNone),
      Rec2("time", Str("t1"), "name", Str("n")),
      Dict(<< <<"date", Str("t1")>>, <<"time", PyNone>>, <<"value", Num(10)>> >>),
      Dict(<< <<"x", Str("t2")>> >>),
      Dict(<< <<"value", Num(20)>> >>),
      Dict(<< <<"date", Str("t1")>>, <<"time", Str("t2")>>,
              <<"price", Num(10)>>, <<"amount", Num(20)>> >>),
      Dict(<<>>),
      Num(10),
      Str("t1") }

SequenceCandidates == { List(s) : s \in SeqsUpTo(ItemPool, MaxRecs) }

ScalarCandidates == { PyNone, Num(0), Num(5), Str(""), Str("t1") }

\* the worked examples of the specification
ExampleLabelsData ==
    Dict(<< <<"labels", List(<<Str("2023-01-01"), Str("2023-01-08")>>)>>,
            <<"data", List(<<Num(999), Num(949)>>)>> >>)
ExampleMismatch ==
    Dict(<< <<"labels", List(<<Str("a"), Str("b"), Str("c"), Str("d"), Str("e")>>)>>,
            <<"data", List(<<Num(1), Num(2), Num(3)>>)>> >>)
ExampleMismatchData ==
    Dict(<< <<"labels", List(<<Str("a"), Str("b"), Str("c")>>)>>,
            <<"data", List(<<Num(1), Num(2), Num(3), Num(4), Num(5)>>)>> >>)
ExampleRecords ==
    List(<< Rec2("time", Str("t1"), "value", Num(10)), Dict(<< <<"x", Str("t2")>> >>) >>)

Candidates ==
    MappingCandidates \cup SequenceCandidates \cup ScalarCandidates
    \cup {ExampleLabelsData, ExampleMismatch, ExampleMismatchData, ExampleRecords}

-----------------------------------------------------------------------------
(* Entry "shape": validate_price_data, format_price_data, save_to_csv and   *)
(* the label/price loop, each called on one drawn candidate                 *)

ShapeValidate ==
    /\ entry = "shape" /\ pc = "start"
    /\ valid' = validate_price_data(cand)
    /\ pc' = "validated"
    /\ UNCHANGED <<entry, cand, formatted, csvFile, price_data, calls, attempts, envVars, loop_data, product_data, result>>
    /\ UNCHANGED multiVars

ShapeFormat ==
    /\ entry = "shape" /\ pc = "validated"
    /\ formatted' = format_price_data(cand)
    /\ pc' = "formatted"
    /\ UNCHANGED <<entry, cand, valid, csvFile, price_data, calls, attempts, envVars, loop_data, product_data, result>>
    /\ UNCHANGED multiVars

ShapeSave ==
    /\ entry = "shape" /\ pc = "formatted"
    /\ \E openFails \in BOOLEAN :
          csvFile' = save_to_csv(formatted, openFails, csvFile)[2]
    /\ pc' = "saved"
    /\ UNCHANGED <<entry, cand, valid, formatted, price_data, calls, attempts, envVars, loop_data, product_data, result>>
    /\ UNCHANGED multiVars

ShapePair ==
    /\ entry = "shape" /\ pc = "saved"
    /\ price_data' = pair_chart_data(cand, List(<<>>))
    /\ pc' = "paired"
    /\ UNCHANGED <<entry, cand, valid, formatted, csvFile, calls, attempts, envVars, loop_data, product_data, result>>
    /\ UNCHANGED multiVars

-----------------------------------------------------------------------------
(* What the environment hands the single-product scraper *)

MaxLog == 2       \* longest network log drawn
MaxScripts == 2   \* most script blocks in a drawn page

LabelsData(l, d) == Dict(<< <<"labels", l>>, <<"data", d>> >>)
GoodSeries == LabelsData(List(<<Str("t1"), Str("t2")>>), List(<<Num(10), Num(20)>>))
EmptySeries == LabelsData(List(<<>>), List(<<>>))
DatesPrices == Dict(<< <<"dates", List(<<Str("t1")>>)>>, <<"prices", List(<<Num(10)>>)>> >>)
XY == Dict(<< <<"x", List(<<Str("t1")>>)>>, <<"y", List(<<Num(10)>>)>> >>)
NoPair == Dict(<< <<"name", List(<<Str("t1")>>)>> >>)

\* what execute_script can return: any JSON value of the page, or an exception
ScriptResults ==
    { PyNone, Dict(<<>>), GoodSeries, EmptySeries, DatesPrices, XY, NoPair,
      LabelsData(List(<<Str("t1"), Str("t2")>>), List(<<Num(10)>>)),
      LabelsData(PyNone, List(<<Num(10)>>)),
      ExampleRecords, Str("t1"), Raise("JavascriptException") }

Bodies == { Json(GoodSeries), Json(XY), Json(ExampleRecords), Json(NoPair), Undecodable }

LogEntryPool ==
    { LogMalformed,
      LogEvent("Network.requestWillBeSent", TRUE, FetchStatus(200, Json(GoodSeries))),
      LogEvent("Network.responseReceived", FALSE, FetchStatus(200, Json(GoodSeries))),
      LogEvent("Network.responseReceived", TRUE, FetchError),
      LogEvent("Network.responseReceived", TRUE, FetchStatus(404, Json(GoodSeries))) }
    \cup { LogEvent("Network.responseReceived", TRUE, FetchStatus(200, b)) : b \in Bodies }

NetLogs == { List(l) : l \in SeqsUpTo(LogEntryPool, MaxLog) } \cup { Raise("WebDriverException") }

\* the matches of the five patterns in one script block
Matches5(a, b, c, d, e) == Script(<<a, b, c, d, e>>)
ScriptPool ==
    { NoString,
      Matches5(<<>>, <<>>, <<>>, <<>>, <<>>),
      Matches5(<<Json(GoodSeries)>>, <<>>, <<>>, <<>>, <<>>),
      Matches5(<<Undecodable, Json(GoodSeries)>>, <<>>, <<>>, <<>>, <<>>),
      Matches5(<<Json(NoPair), Json(DatesPrices)>>, <<>>, <<>>, <<>>, <<>>),
      Matches5(<<Undecodable>>, <<Json(ExampleRecords)>>, <<>>, <<>>, <<>>),
      Matches5(<<>>, <<>>, <<Json(XY)>>, <<Undecodable>>, <<Json(Num(5))>>),
      Matches5(<<>>, <<>>, <<Json(EmptySeries)>>, <<>>, <<>>) }

Pages == { Page(p) : p \in SeqsUpTo(ScriptPool, MaxScripts) } \cup { Raise("HTTPError") }

\* the logs and pages a whole run of the scraper is given
RunLogs ==
    { Raise("WebDriverException"), List(<<>>),
      List(<<LogEvent("Network.responseReceived", TRUE, FetchStatus(200, Json(GoodSeries)))>>),
      List(<<LogEvent("Network.responseReceived", TRUE, FetchStatus(200, Json(XY)))>>),
      List(<<LogMalformed,
             LogEvent("Network.responseReceived", TRUE, FetchStatus(200, Json(GoodSeries)))>>) }

RunPages ==
    { Raise("HTTPError"), Page(<<>>),
      Page(<<Matches5(<<Json(GoodSeries)>>, <<>>, <<>>, <<>>, <<>>)>>),
      Page(<<Matches5(<<>>, <<>>, <<Json(XY)>>, <<Undecodable>>, <<Json(Num(5))>>)>>),
      Page(<<NoString, Matches5(<<Undecodable>>, <<Json(ExampleRecords)>>, <<>>, <<>>, <<>>)>>) }

-----------------------------------------------------------------------------
(* The extractors and the generator called directly *)

DirectVars == <<entry, shapeVars, csvFile, attempts, loop_data, product_data>>

NetworkLogs ==
    /\ entry = "network" /\ pc = "start"
    /\ \E lg \in NetLogs :
          /\ perf_logs' = lg
          /\ result' = extract_from_network_logs(lg)
    /\ calls' = Append(calls, "network")
    /\ pc' = "returned"
    /\ UNCHANGED <<DirectVars, script_ret, page_resp>>
    /\ UNCHANGED multiVars

PageSource ==
    /\ entry = "page_source" /\ pc = "start"
    /\ \E pg \in Pages :
          /\ page_resp' = pg
          /\ result' = extract_from_page_source(pg)
    /\ calls' = Append(calls, "page_source")
    /\ pc' = "returned"
    /\ UNCHANGED <<DirectVars, script_ret, perf_logs>>
    /\ UNCHANGED multiVars

SampleData ==
    /\ entry = "sample" /\ pc = "start"
    /\ \E salt \in HashSalts : result' = SampleOf[salt]
    /\ calls' = Append(calls, "synthetic")
    /\ pc' = "returned"
    /\ UNCHANGED <<DirectVars, envVars>>
    /\ UNCHANGED multiVars

-----------------------------------------------------------------------------
(* PriceHistoryScraper.scrape_price_history: one action per iteration of the *)
(* loop over methods                                                         *)

\* variant: the loop goes on after a successful save
LoopBody_no_return(method, d, nextpc) ==
    /\ loop_data' = d
    /\ IF Truthy(d) /\ validate_price_data(d) = Bool(TRUE)
           THEN \E openFails \in BOOLEAN :
                  LET saved == save_to_csv(d, openFails, csvFile) IN
                  /\ csvFile' = saved[2]
                  /\ result' = IF saved[1] THEN d
                                ELSE IF nextpc = "returned" THEN PyNone ELSE result
                  /\ pc' = nextpc
                  /\ attempts' = Append(attempts,
                         <<method, IF saved[1] THEN "succeeded" ELSE "save_failed">>)
       ELSE /\ csvFile' = csvFile
            /\ result' = IF nextpc = "returned" THEN PyNone ELSE result
            /\ pc' = nextpc
            /\ attempts' = Append(attempts, <<method, "declined">>)

\* the body of the loop for the value d a method returned; `last` is the pc of
\* the next iteration, or "returned" after the last method (return None)
LoopBody(method, d, nextpc) ==
    /\ loop_data' = d
    /\ IF Truthy(d) /\ validate_price_data(d) = Bool(TRUE)
           THEN \E openFails \in BOOLEAN :
                  LET saved == save_to_csv(d, openFails, csvFile) IN
                  /\ csvFile' = saved[2]
                  /\ IF saved[1]
                         THEN /\ result' = d
                              /\ pc' = "returned"
                              /\ attempts' = Append(attempts, <<method, "succeeded">>)
                     ELSE /\ result' = IF nextpc = "returned" THEN PyNone ELSE result
                          /\ pc' = nextpc
                          /\ attempts' = Append(attempts, <<method, "save_failed">>)
       ELSE /\ csvFile' = csvFile
            /\ result' = IF nextpc = "returned" THEN PyNone ELSE result
            /\ pc' = nextpc
            /\ attempts' = Append(attempts, <<method, "declined">>)

SeleniumChartExtraction ==
    /\ entry = "single" /\ pc = "selenium"
    /\ \E nav \in BOOLEAN, script \in ScriptResults, lg \in RunLogs :
          LET r == extract_chart_data_selenium(nav, script, lg) IN
          /\ calls' = calls \o r.ran
          /\ script_ret' = IF nav THEN script ELSE Unset
          /\ perf_logs' = IF "network" \in {r.ran[i] : i \in 1..Len(r.ran)} THEN lg ELSE Unset
          /\ LoopBody("selenium", r.ret, "page_source")
    /\ UNCHANGED <<entry, shapeVars, page_resp, product_data>>
    /\ UNCHANGED multiVars

PageSourceExtraction ==
    /\ entry = "single" /\ pc = "page_source"
    /\ \E pg \in RunPages :
          /\ page_resp' = pg
          /\ calls' = Append(calls, "page_source")
          /\ LoopBody("page_source", extract_from_page_source(pg), "sample")
    /\ UNCHANGED <<entry, shapeVars, script_ret, perf_logs, product_data>>
    /\ UNCHANGED multiVars

SampleDataGeneration ==
    /\ entry = "single" /\ pc = "sample"
    /\ \E salt \in HashSalts :
          /\ calls' = Append(calls, "synthetic")
          /\ LoopBody("sample", SampleOf[salt], "returned")
    /\ UNCHANGED <<entry, shapeVars, envVars, product_data>>
    /\ UNCHANGED multiVars

-----------------------------------------------------------------------------
(* What the environment hands the multi-product scraper *)

\* "<" and ">" stand for the guillemets of the title '<<Apple>> iPhone'
TitleSamsung == <<"S","a","m","s","u","n","g"," ","G","a","l","a","x","y"," ","S","2","3">>
TitleApple == <<"<","A","p","p","l","e",">"," ","i","P","h","o","n","e">>
RunTitles ==
    { TitleSamsung, TitleApple, <<"<", ">", " ", "x">>, <<" ", "a", "-", "b", " ">>,
      <<" ">>, <<>> }

NoMatch == <<PyNone, PyNone, PyNone, PyNone>>
\* script blocks as the four patterns can match them: a labels:/data: capture
\* holds no ']', a chartData/priceData capture decodes to one value or not at all
RunHtmlScripts ==
    { <<>>,
      << << <<HtmlMatch(FALSE, Undecodable)>>, <<HtmlMatch(FALSE, Undecodable)>>,
            <<HtmlMatch(TRUE, Undecodable)>>,
            <<HtmlMatch(TRUE, Json(List(<<List(<<Num(10), Num(20)>>)>>)))>> >> >> }

RunHtmls ==
    { [sel |-> <<Text(t), PyNone, PyNone, PyNone>>, meta |-> PyNone, scripts |-> sc] :
        t \in RunTitles, sc \in RunHtmlScripts }
    \cup { [sel |-> <<PyNone, PyNone, Text(TitleApple), PyNone>>, meta |-> Text(TitleSamsung),
            scripts |-> <<>>],
           [sel |-> NoMatch, meta |-> Text(TitleSamsung), scripts |-> <<>>],
           [sel |-> <<Text(<<" ">>), PyNone, PyNone, PyNone>>, meta |-> Text(<<" ", "a", " ">>),
            scripts |-> <<>>],
           [sel |-> NoMatch, meta |-> Text(<<>>), scripts |-> <<>>],
           [sel |-> NoMatch, meta |-> PyNone, scripts |-> <<>>] }

Response(status, html) == <<"response", status, html>>
RunResponses ==
    { Raise("ConnectionError") }
    \cup { Response(200, h) : h \in RunHtmls }
    \cup { Response(404, [sel |-> NoMatch, meta |-> PyNone, scripts |-> <<>>]) }

\* driver.find_element(By.TAG_NAME, "h1").text, or the exception raised
H1Results == { Text(t) : t \in RunTitles } \cup { Raise("NoSuchElementException") }

\* the probe script of price_before.py returns null or an object it builds
\* with the keys labels and data
AdvScriptResults ==
    { PyNone, GoodSeries, EmptySeries,
      LabelsData(List(<<Str("t1"), Str("t2")>>), List(<<Num(10)>>)),
      LabelsData(List(<<Str("t1")>>), List(<<Num(10), Num(20)>>)),
      LabelsData(PyNone, List(<<Num(10)>>)),
      LabelsData(List(<<Str("t1")>>), Num(10)),
      Raise("JavascriptException") }

-----------------------------------------------------------------------------
(* EnhancedPriceHistoryScraper.extract_chart_data_advanced: one action per   *)
(* method of the cascade                                                     *)

AdvVars == <<entry, shapeVars, csvFile, attempts, loop_data, perf_logs>>

\* Method 1: requests
AdvRequests ==
    /\ entry = "advanced" /\ pc = "requests"
    /\ calls' = Append(calls, "page_source")
    /\ \E resp \in RunResponses :
          /\ page_resp' = resp
          /\ IF ~IsRaise(resp) /\ resp[2] = 200
                 THEN LET product_info == extract_product_info(resp[3])
                          updated == [product_data EXCEPT !.title = product_info.title,
                                                          !.brand = product_info.brand]
                          found == extract_price_from_html(resp[3])
                      IN  IF Truthy(found)
                              THEN /\ product_data' = [updated EXCEPT !.price_data = found]
                                   /\ result' = [updated EXCEPT !.price_data = found]
                                   /\ pc' = "returned"
                          ELSE /\ product_data' = updated
                               /\ pc' = "selenium"
                               /\ UNCHANGED result
             ELSE /\ pc' = "selenium"
                  /\ UNCHANGED <<product_data, result>>
    /\ UNCHANGED <<AdvVars, script_ret>>
    /\ UNCHANGED multiVars

\* lines 187-198: the title and brand taken from the rendered page
BrowserInfo(pd, h1) ==
    IF IsRaise(h1) THEN pd
    ELSE LET title == Text(Strip(h1[2]))
             words == Split(title[2])
         IN  IF words # <<>>
                 THEN [pd EXCEPT !.title = title, !.brand = Text(Strip(ReSub(words[1])))]
             ELSE [pd EXCEPT !.title = title]

\* Method 2: Selenium
AdvSelenium ==
    /\ entry = "advanced" /\ pc = "selenium"
    /\ \E driver \in BOOLEAN, nav \in BOOLEAN, h1 \in H1Results, script \in AdvScriptResults :
          IF ~driver
              THEN UNCHANGED <<calls, script_ret, product_data>>
          ELSE /\ calls' = Append(calls, "script")
               /\ IF ~nav
                      THEN UNCHANGED <<script_ret, product_data>>
                  ELSE LET pd == BrowserInfo(product_data, h1)
                           paired == IF IsRaise(script) THEN script
                                     ELSE pair_chart_data(script, pd.price_data)
                       IN  /\ script_ret' = script
                           /\ product_data' = IF IsRaise(paired) THEN pd
                                              ELSE [pd EXCEPT !.price_data = paired]
    /\ pc' = "sample"
    /\ UNCHANGED <<AdvVars, page_resp, result>>
    /\ UNCHANGED multiVars

\* Method 3: sample data when nothing was extracted, and the return
AdvSample ==
    /\ entry = "advanced" /\ pc = "sample"
    /\ IF ~Truthy(product_data.price_data)
           THEN \E base \in BasePrices, stream \in RandStreams :
                  LET pd == [product_data EXCEPT
                               !.price_data = SamplePricesOf[base, stream]]
                  IN  /\ product_data' = pd
                      /\ result' = pd
                      /\ calls' = Append(calls, "synthetic")
       ELSE /\ result' = product_data
            /\ UNCHANGED <<product_data, calls>>
    /\ pc' = "returned"
    /\ UNCHANGED <<AdvVars, page_resp, script_ret>>
    /\ UNCHANGED multiVars

-----------------------------------------------------------------------------
(* EnhancedPriceHistoryScraper.scrape_multiple_products: the worker threads  *)
(* of the ThreadPoolExecutor, one per URL, and the calling thread            *)

NumUrls == 2                      \* URLs handed to scrape_multiple_products
Urls == 1..NumUrls
MaxWorkersChoices == {1, 3}       \* max_workers; 3 is the default
DriverPoolLimit == 2              \* min(2, self.max_workers)

\* The page of URL p shows the title p and a chart of two points <<p, 1>>,
\* <<p, 2>>; title 0 is the placeholder 'Unknown Product', and the points of
\* generate_sample_price_data are marked 0.
UnknownTitle == 0
PageSeries(p) == << <<p, 1>>, <<p, 2>> >>
SampleSeries == << <<0, 1>> >>
NewProductData == [title |-> UnknownTitle, price_data |-> <<>>]

Pending == <<"pending">>
ReturnedNone == <<"none">>
Returned(rec) == <<"rec", rec>>

\* the threads inside process_single_url
Running == {u \in Urls : wpc[u] \notin {"queued", "done"}}

\* a worker of the executor takes the next submitted URL
WorkerStart(u) ==
    /\ entry = "multi" /\ pc = "collect"
    /\ wpc[u] = "queued"
    /\ Cardinality(Running) < max_workers
    /\ wpc' = [wpc EXCEPT ![u] = "requests"]
    /\ UNCHANGED <<entry, pc, csvFile, result, singleVars, max_workers, driver_pool,
                   wdriver, driver_page, wrec, futures, mainVars>>

\* Method 1: the page fetched with requests; "series" is the early return with
\* the prices found in the HTML
Requests(u) ==
    /\ entry = "multi" /\ wpc[u] = "requests"
    /\ \E outcome \in {"failed", "info", "series"} :
          CASE outcome = "failed" ->
                 /\ wpc' = [wpc EXCEPT ![u] = "driver"]
                 /\ UNCHANGED <<wrec, futures>>
            [] outcome = "info" ->
                 /\ wrec' = [wrec EXCEPT ![u].title = u]
                 /\ wpc' = [wpc EXCEPT ![u] = "driver"]
                 /\ UNCHANGED futures
            [] OTHER ->
                 LET rec == [title |-> u, price_data |-> PageSeries(u)] IN
                 /\ wrec' = [wrec EXCEPT ![u] = rec]
                 /\ futures' = [futures EXCEPT ![u] = Returned(rec)]
                 /\ wpc' = [wpc EXCEPT ![u] = "done"]
    /\ UNCHANGED <<entry, pc, csvFile, result, singleVars, max_workers, driver_pool,
                   wdriver, driver_page, mainVars>>

\* get_driver: random.choice(self.driver_pool), None for an empty pool
GetDriver(u) ==
    /\ entry = "multi" /\ wpc[u] = "driver"
    /\ IF driver_pool = {}
           THEN /\ wpc' = [wpc EXCEPT ![u] = "sample"]
                /\ UNCHANGED wdriver
       ELSE \E d \in driver_pool :
               /\ wdriver' = [wdriver EXCEPT ![u] = d]
               /\ wpc' = [wpc EXCEPT ![u] = "navigate"]
    /\ UNCHANGED <<entry, pc, csvFile, result, singleVars, max_workers, driver_pool,
                   driver_page, wrec, futures, mainVars>>

\* driver.get(url) and the wait for the body: the driver shows the page of u
\* unless the navigation fails; an exception goes to the sample data
DriverGet(u) ==
    /\ entry = "multi" /\ wpc[u] = "navigate"
    /\ \E loaded \in BOOLEAN, raises \in BOOLEAN :
          /\ driver_page' = IF loaded THEN [driver_page EXCEPT ![wdriver[u]] = u]
                            ELSE driver_page
          /\ wpc' = [wpc EXCEPT ![u] = IF loaded /\ ~raises THEN "title" ELSE "sample"]
    /\ UNCHANGED <<entry, pc, csvFile, result, singleVars, max_workers, driver_pool,
                   wdriver, wrec, futures, mainVars>>

\* driver.find_element(By.TAG_NAME, "h1").text: the title of the page the
\* driver shows now
FindTitle(u) ==
    /\ entry = "multi" /\ wpc[u] = "title"
    /\ \E found \in BOOLEAN :
          wrec' = IF found THEN [wrec EXCEPT ![u].title = driver_page[wdriver[u]]]
                  ELSE wrec
    /\ wpc' = [wpc EXCEPT ![u] = "probe"]
    /\ UNCHANGED <<entry, pc, csvFile, result, singleVars, max_workers, driver_pool,
                   wdriver, driver_page, futures, mainVars>>

\* driver.execute_script(script): the chart of the page the driver shows now,
\* or nothing
ExecuteScript(u) ==
    /\ entry = "multi" /\ wpc[u] = "probe"
    /\ \E chart \in BOOLEAN :
          wrec' = IF chart
                      THEN [wrec EXCEPT ![u].price_data = PageSeries(driver_page[wdriver[u]])]
                  ELSE wrec
    /\ wpc' = [wpc EXCEPT ![u] = "sample"]
    /\ UNCHANGED <<entry, pc, csvFile, result, singleVars, max_workers, driver_pool,
                   wdriver, driver_page, futures, mainVars>>

\* Method 3 and the return of process_single_url: the record, or None when an
\* exception left extract_chart_data_advanced
ReturnProductData(u) ==
    /\ entry = "multi" /\ wpc[u] = "sample"
    /\ \E raises \in BOOLEAN :
          IF raises
              THEN /\ futures' = [futures EXCEPT ![u] = ReturnedNone]
                   /\ UNCHANGED wrec
          ELSE LET rec == IF wrec[u].price_data = <<>>
                              THEN [wrec[u] EXCEPT !.price_data = SampleSeries]
                          ELSE wrec[u]
               IN  /\ wrec' = [wrec EXCEPT ![u] = rec]
                   /\ futures' = [futures EXCEPT ![u] = Returned(rec)]
    /\ wpc' = [wpc EXCEPT ![u] = "done"]
    /\ UNCHANGED <<entry, pc, csvFile, result, singleVars, max_workers, driver_pool,
                   wdriver, driver_page, mainVars>>

\* variant: a URL without result is not counted
Tally_failed_not_counted(res, data, ok, ko) ==
    IF res[1] = "rec" /\ res[2].price_data # <<>>
        THEN <<Append(data, res[2]), ok + 1, ko>>
    ELSE <<data, ok, ko>>

\* the body of the as_completed loop: all_data, successful and failed after it
Tally(res, data, ok, ko) ==
    IF res[1] = "rec" /\ res[2].price_data # <<>>
        THEN <<Append(data, res[2]), ok + 1, ko>>
    ELSE <<data, ok, ko + 1>>

\* one iteration of `for future in as_completed(future_to_url)`
Collect(u) ==
    /\ entry = "multi" /\ pc = "collect"
    /\ u \notin collected /\ futures[u] # Pending
    /\ LET t == Tally(futures[u], all_data, successful, failed) IN
       /\ all_data' = t[1]
       /\ successful' = t[2]
       /\ failed' = t[3]
    /\ collected' = collected \cup {u}
    /\ UNCHANGED <<entry, pc, csvFile, result, singleVars, max_workers, driver_pool,
                   workerVars, written>>

\* variant: the loop ends at the first completed future
AllCollected_first_only == collected # {}

\* as_completed is exhausted and the executor's with block is left
AllCollected == collected = Urls

\* `if all_data:` and the opening of the output file in save_to_csv
SaveToCsvOpen ==
    /\ entry = "multi" /\ pc = "collect"
    /\ AllCollected
    /\ IF all_data = <<>>
           THEN /\ result' = PyNone
                /\ pc' = "returned"
                /\ UNCHANGED csvFile
       ELSE \E openFails \in BOOLEAN :
               IF openFails
                   THEN /\ result' = PyNone
                        /\ pc' = "returned"
                        /\ UNCHANGED csvFile
               ELSE /\ csvFile' = File(<<"title", "brand", "date", "price">>, <<>>)
                    /\ pc' = "save"
                    /\ UNCHANGED result
    /\ UNCHANGED <<entry, singleVars, multiVars>>

\* the inner loop of save_to_csv: one row per price entry of a product
WriteProduct(rows, rec) ==
    rows \o [k \in 1..Len(rec.price_data) |-> <<rec.title, rec.price_data[k]>>]

\* one iteration of `for product_data in all_data`
SaveToCsvProduct ==
    /\ entry = "multi" /\ pc = "save"
    /\ written < Len(all_data)
    /\ csvFile' = File(csvFile[2], WriteProduct(csvFile[3], all_data[written + 1]))
    /\ written' = written + 1
    /\ UNCHANGED <<entry, pc, result, singleVars, max_workers, driver_pool, workerVars,
                   collected, all_data, successful, failed>>

\* the file is closed and all_data returned
SaveToCsvClose ==
    /\ entry = "multi" /\ pc = "save"
    /\ written = Len(all_data)
    /\ result' = List(all_data)
    /\ pc' = "returned"
    /\ UNCHANGED <<entry, csvFile, singleVars, multiVars>>

-----------------------------------------------------------------------------

InitShape ==
    /\ entry = "shape"
    /\ pc = "start"
    /\ cand \in Candidates

\* the two extractors and the generator, each called on its own
InitDirect ==
    /\ entry \in {"network", "page_source", "sample"}
    /\ pc = "start"
    /\ cand = Unset

InitSingle ==
    /\ entry = "single"
    /\ pc = "selenium"
    /\ cand = Unset

InitAdvanced ==
    /\ entry = "advanced"
    /\ pc = "requests"
    /\ cand = Unset

\* scrape_multiple_products after the futures were submitted
InitMulti ==
    /\ entry = "multi"
    /\ pc = "collect"
    /\ cand = Unset

Init ==
    /\ (InitShape \/ InitDirect \/ InitSingle \/ InitAdvanced \/ InitMulti)
    /\ IF entry = "multi"
           THEN /\ max_workers \in MaxWorkersChoices
                \* a driver that cannot be created is left out of the pool
                /\ driver_pool \in {1..n : n \in 0..Min(DriverPoolLimit, max_workers)}
       ELSE /\ max_workers = 3
            /\ driver_pool = {}
    /\ wpc = [u \in Urls |-> "queued"]
    /\ wdriver = [u \in Urls |-> 0]
    /\ driver_page = [d \in 1..DriverPoolLimit |-> 0]
    /\ wrec = [u \in Urls |-> NewProductData]
    /\ futures = [u \in Urls |-> Pending]
    /\ collected = {}
    /\ all_data = <<>>
    /\ successful = 0
    /\ failed = 0
    /\ written = 0
    /\ product_data = [title |-> UnknownProduct, brand |-> UnknownBrand, price_data |-> List(<<>>)]
    /\ valid = Unset
    /\ formatted = Unset
    /\ csvFile = NoFile
    /\ price_data = List(<<>>)
    /\ calls = <<>>
    /\ attempts = <<>>
    /\ script_ret = Unset
    /\ perf_logs = Unset
    /\ page_resp = Unset
    /\ loop_data = Unset
    /\ result = Unset

Next ==
    \/ ShapeValidate
    \/ ShapeFormat
    \/ ShapeSave
    \/ ShapePair
    \/ NetworkLogs
    \/ PageSource
    \/ SampleData
    \/ SeleniumChartExtraction
    \/ PageSourceExtraction
    \/ SampleDataGeneration
    \/ AdvRequests
    \/ AdvSelenium
    \/ AdvSample
    \/ \E u \in Urls : WorkerStart(u)
    \/ \E u \in Urls : Requests(u)
    \/ \E u \in Urls : GetDriver(u)
    \/ \E u \in Urls : DriverGet(u)
    \/ \E u \in Urls : FindTitle(u)
    \/ \E u \in Urls : ExecuteScript(u)
    \/ \E u \in Urls : ReturnProductData(u)
    \/ \E u \in Urls : Collect(u)
    \/ SaveToCsvOpen
    \/ SaveToCsvProduct
    \/ SaveToCsvClose

Spec == Init /\ [][Next]_vars

-----------------------------------------------------------------------------
(* Claims *)

Keys(d) == {d[2][i][1] : i \in 1..Len(d[2])}
IsLabelsData(c) == IsDict(c) /\ {"labels", "data"} \subseteq Keys(c)
BothLists(c) == IsList(Get(c, "labels")) /\ IsList(Get(c, "data"))
CsvRows == csvFile[3]

\* the four shape rules of the validator, as the specification words them
MatchesShapeRule(c) ==
    \/ IsDict(c) /\ {"labels", "data"} \subseteq Keys(c)
    \/ IsDict(c) /\ {"dates", "prices"} \subseteq Keys(c)
    \/ IsDict(c) /\ {"x", "y"} \subseteq Keys(c)
    \/ /\ IsList(c) /\ c[2] # <<>>
       /\ IsDict(c[2][1])
       /\ Keys(c[2][1]) \cap price_keys # {}
       /\ Keys(c[2][1]) \cap date_keys # {}

\* C1: validate_price_data returns true exactly for the candidates that match
\* one of the four shape rules, and false (never an exception) for all others.
C1_ValidateMatchesRules ==
    (entry = "shape" /\ pc # "start") => valid = Bool(MatchesShapeRule(cand))

C1_Witness ==
    /\ entry = "shape" /\ pc = "validated"
    /\ cand = ExampleRecords
    /\ valid = Bool(TRUE)

\* C6: a labels/data mapping whose two arrays both have length N is passed
\* through by format_price_data and written as exactly N rows, the i-th row
\* being (labels[i], data[i]).
C6_EqualLengthRows ==
    (/\ entry = "shape" /\ pc \in {"saved", "paired"}
     /\ IsLabelsData(cand) /\ BothLists(cand)
     /\ Len(Get(cand, "labels")[2]) = Len(Get(cand, "data")[2]))
    => /\ formatted = cand
       /\ csvFile # NoFile =>
            /\ Len(CsvRows) = Len(Get(cand, "labels")[2])
            /\ \A i \in 1..Len(CsvRows) :
                  CsvRows[i] = <<Get(cand, "labels")[2][i], Get(cand, "data")[2][i]>>

C6_Witness ==
    /\ entry = "shape" /\ pc = "saved"
    /\ cand = ExampleLabelsData
    /\ csvFile = File(<<"Date", "Price">>,
                      << <<Str("2023-01-01"), Num(999)>>, <<Str("2023-01-08"), Num(949)>> >>)

\* C7: for labels and data arrays of different lengths both the CSV pairing and
\* the label/price loop emit exactly min(len(labels), len(data)) points, the
\* i-th made of labels[i] and data[i], and neither raises.
C7_ShorterLengthWins ==
    (/\ entry = "shape" /\ pc = "paired"
     /\ IsLabelsData(cand) /\ BothLists(cand))
    => LET labels == Get(cand, "labels")[2]
           prices == Get(cand, "data")[2]
           n == IF Len(labels) <= Len(prices) THEN Len(labels) ELSE Len(prices)
       IN  /\ csvFile # NoFile =>
                /\ Len(CsvRows) = n
                /\ \A i \in 1..n : CsvRows[i] = <<labels[i], prices[i]>>
           /\ IsList(price_data)
           /\ Len(price_data[2]) = n
           /\ \A i \in 1..n : price_data[2][i] = Point(labels[i], prices[i])

C7_Witness ==
    /\ entry = "shape" /\ pc = "paired"
    /\ cand = ExampleMismatch
    /\ csvFile # NoFile /\ Len(CsvRows) = 3
    /\ Len(price_data[2]) = 3

\* the value a record holds under the last of its keys that lower-cases into
\* the key set, None when it has no such key
LastValue(rec, keyset) ==
    LET idx == {i \in 1..Len(rec[2]) : Lower(rec[2][i][1]) \in keyset} IN
    IF idx = {} THEN PyNone
    ELSE rec[2][CHOOSE i \in idx : \A j \in idx : j <= i][2]

HasKeyIn(rec, keyset) == \E i \in 1..Len(rec[2]) : Lower(rec[2][i][1]) \in keyset

\* the elements of seq that satisfy Keep, in the order of seq
Kept(seq, Keep(_)) ==
    LET idx == {i \in 1..Len(seq) : Keep(seq[i])}
        at(k) == CHOOSE i \in idx : Cardinality({j \in idx : j < i}) = k - 1
    IN  [k \in 1..Cardinality(idx) |-> seq[at(k)]]

HasBothKeys(item) ==
    IsDict(item) /\ HasKeyIn(item, date_keys) /\ HasKeyIn(item, price_keys)
HasBothValues(item) ==
    /\ IsDict(item)
    /\ LastValue(item, date_keys) # PyNone
    /\ LastValue(item, price_keys) # PyNone

\* C8 as stated: one point for every record that has a date-set key and a
\* price-set key, every other record dropped.
C8_PointPerRecordWithBothKeys ==
    (entry = "shape" /\ pc \notin {"start", "validated"} /\ IsList(cand))
    => Len(Get(formatted, "labels")[2]) = Len(Kept(cand[2], HasBothKeys))

\* C8 amended: one point for every record whose date-set key and price-set key
\* (the last of each in the record, matched case-insensitively) both hold a
\* value other than null; every other record is dropped; the points keep the
\* input order and labels and data have the same length.
C8_PointPerRecordWithBothValues ==
    (entry = "shape" /\ pc \notin {"start", "validated"} /\ IsList(cand))
    => LET kept == Kept(cand[2], HasBothValues) IN
       /\ Get(formatted, "labels") = List([k \in 1..Len(kept) |-> LastValue(kept[k], date_keys)])
       /\ Get(formatted, "data") = List([k \in 1..Len(kept) |-> LastValue(kept[k], price_keys)])

C8_Witness ==
    /\ entry = "shape" /\ pc = "formatted"
    /\ cand = ExampleRecords
    /\ formatted = Formatted(List(<<Str("t1")>>), List(<<Num(10)>>))

\* the date a 'YYYY-MM-DD' label denotes
LabelDate(l) == datetime(l[2], l[3], l[4])

WeeklySeries(series) ==
    LET labels == Get(series, "labels")[2]
        prices == Get(series, "data")[2]
    IN  /\ Len(labels) = ((datetime(2025, 8, 2) - datetime(2022, 11, 1)) \div 7) + 1
        /\ Len(labels) = 144
        /\ Len(prices) = Len(labels)
        /\ labels[1] = DateStr(2022, 11, 1)
        /\ \A i \in 1..(Len(labels) - 1) : LabelDate(labels[i + 1]) - LabelDate(labels[i]) = 7
        /\ \A i \in 1..Len(labels) : LabelDate(labels[i]) <= datetime(2025, 8, 2)

\* C9: whatever the prices, generate_sample_data returns 144 points, the first
\* dated 2022-11-01, consecutive ones 7 days apart, none after 2025-08-02.
C9_WeeklySampleLength ==
    /\ (entry = "sample" /\ pc = "returned") => WeeklySeries(result)
    /\ (entry = "single" /\ Len(attempts) = 3) => WeeklySeries(loop_data)

C9_Witness ==
    /\ entry = "sample" /\ pc = "returned"
    /\ Get(result, "labels")[2][144] = DateStr(2025, 7, 29)
    /\ Get(result, "data")[2][1] # Get(SampleOf[0], "data")[2][1]

\* the strategies entered, as a set
Called == {calls[i] : i \in 1..Len(calls)}
Outcome(i) == attempts[i][2]
ValidCandidate(c) == validate_price_data(c) = Bool(TRUE)
SeriesLength(d) == Min(Len(Get(d, "labels")[2]), Len(Get(d, "data")[2]))

\* C2: when every real strategy declines, the run returns a record with a
\* non-empty series made by the synthetic generator, never None or an empty
\* series.
C2_SyntheticWhenAllDecline ==
    /\ (/\ entry = "single" /\ pc = "returned"
        /\ Len(attempts) >= 2 /\ Outcome(1) = "declined" /\ Outcome(2) = "declined")
       => /\ result \in {SampleOf[salt] : salt \in HashSalts}
          /\ SeriesLength(result) > 0
    /\ (entry = "advanced" /\ pc = "returned" /\ "synthetic" \in Called)
       => Len(result.price_data[2]) > 0

\* C3: no run ends with an empty series returned or written: a candidate that
\* validates but holds no point does not end the cascade.
C3_NeverEmptySeries ==
    /\ (entry = "single" /\ pc = "returned" /\ result # PyNone)
       => /\ SeriesLength(result) > 0
          /\ csvFile # NoFile /\ Len(CsvRows) > 0
    /\ (entry = "advanced" /\ pc = "returned") => Len(result.price_data[2]) > 0

\* C4: once the in-page probe has yielded a valid candidate, neither the
\* page-source extractor nor the network-log extractor is entered in that run.
C4_ShortCircuitAfterScript ==
    (entry = "single" /\ ValidCandidate(script_ret))
    => ("page_source" \notin Called /\ "network" \notin Called)

Increasing(rank) == \A i, j \in 1..Len(calls) : i < j => rank[calls[i]] < rank[calls[j]]

SpecOrder ==
    [c \in {"script", "page_source", "network", "synthetic"} |->
        CASE c = "script" -> 1 [] c = "page_source" -> 2 [] c = "network" -> 3 [] OTHER -> 4]
SingleOrder ==
    [c \in {"script", "page_source", "network", "synthetic"} |->
        CASE c = "script" -> 1 [] c = "network" -> 2 [] c = "page_source" -> 3 [] OTHER -> 4]
AdvancedOrder ==
    [c \in {"script", "page_source", "network", "synthetic"} |->
        CASE c = "page_source" -> 1 [] c = "script" -> 2 [] c = "synthetic" -> 3 [] OTHER -> 4]

\* C5 as stated: the strategies are entered in the order script, page source,
\* network log, synthetic.
C5_SpecifiedOrder ==
    entry \in {"single", "advanced"} => Increasing(SpecOrder)

\* C5 amended: scrape_price_history enters the strategies in the order script,
\* network log (only when the probe returned nothing), page source, synthetic;
\* extract_chart_data_advanced in the order page source, script, synthetic. The
\* synthetic generator is entered only after the Selenium method and the
\* page-source extractor (in extract_chart_data_advanced: the page-source scan)
\* were entered and none of them ended the run.
C5_OrderOfTheCode ==
    /\ entry = "single" =>
         /\ Increasing(SingleOrder)
         /\ "network" \in Called => (script_ret # Unset /\ ~IsRaise(script_ret) /\ ~Truthy(script_ret))
         /\ "synthetic" \in Called =>
              /\ {"script", "page_source"} \subseteq Called
              /\ Len(attempts) >= 2
              /\ Outcome(1) # "succeeded" /\ Outcome(2) # "succeeded"
    /\ entry = "advanced" =>
         /\ Increasing(AdvancedOrder)
         /\ "network" \notin Called
         /\ "synthetic" \in Called => "page_source" \in Called

C5_Witness ==
    /\ entry = "single"
    /\ calls = <<"script", "network", "page_source", "synthetic">>

\* C10: the record's brand is the first token of its title without its
\* punctuation, and title and brand are the placeholders, never empty, when
\* they cannot be extracted.
C10_BrandAndPlaceholders ==
    (entry = "advanced" /\ pc = "returned")
    => /\ TextTruthy(result.title)
       /\ TextTruthy(result.brand)
       /\ \/ result.brand = UnknownBrand
          \/ result.brand = Text(ReSub(Split(result.title[2])[1]))

-----------------------------------------------------------------------------
(* Claims on the scans of the page source and of the network log *)

\* every match of a page in (script block, pattern, match) order
RECURSIVE Flatten(_)
Flatten(seqs) == IF seqs = <<>> THEN <<>> ELSE Head(seqs) \o Flatten(Tail(seqs))
MatchesInOrder(page) ==
    Flatten([s \in 1..Len(page[2]) |->
                IF page[2][s][1] = "nostring" THEN <<>> ELSE Flatten(page[2][s][2])])

DecodesAndValidates(m) == m[1] = "json" /\ ValidCandidate(m[2])

\* the normalized first element of a sequence of decoded texts that decodes
\* and validates, None when there is none
FirstQualifying(ms) ==
    LET ok == Kept(ms, DecodesAndValidates) IN
    IF ok = <<>> THEN PyNone ELSE format_price_data(ok[1][2])

\* C11: the page-source extractor returns the first match, in (script block,
\* pattern, match) order, that decodes and validates; a match that does not
\* decode is skipped and the matches after it are still examined; no decode
\* error reaches the caller.
C11_FirstDecodableValidMatch ==
    (entry = "page_source" /\ pc = "returned" /\ ~IsRaise(page_resp))
    => /\ ~IsRaise(result)
       /\ result = FirstQualifying(MatchesInOrder(page_resp))

\* a log entry the scan is to consider: a response-received event whose URL
\* holds a keyword
IsCandidateEntry(log) ==
    log[1] = "event" /\ log[2] = "Network.responseReceived" /\ log[3]

\* what the fetch of a candidate entry decodes to: <<"undecodable">> for a fetch
\* error, a status other than 200 or a body that does not decode
FetchedBody(log) ==
    IF ~IsCandidateEntry(log) \/ log[4][1] = "error" \/ log[4][2] # 200
        THEN Undecodable
    ELSE log[4][3]

\* C13: the network-log extractor returns the first response-received entry
\* with a keyword URL, in log order, whose fetch succeeds with a body that
\* decodes and validates; a fetch error, a non-success status, a decode error
\* or a malformed entry does not end the scan; None only when no entry
\* qualifies.
C13_FirstQualifyingLogEntry ==
    (entry = "network" /\ pc = "returned" /\ ~IsRaise(perf_logs))
    => result = FirstQualifying([i \in 1..Len(perf_logs[2]) |-> FetchedBody(perf_logs[2][i])])

-----------------------------------------------------------------------------
(* Claims on exceptions inside a strategy *)

\* the navigation, the wait or the probe of the Selenium method raised
ScriptRaised ==
    /\ entry = "single" /\ Len(attempts) >= 1
    /\ (script_ret = Unset \/ IsRaise(script_ret))

IsPrefix(s, t) == Len(s) <= Len(t) /\ SubSeq(t, 1, Len(s)) = s

NoExceptionEscapes ==
    /\ entry # "advanced" => ~IsRaise(result)
    /\ ~IsRaise(loop_data)

\* C12 as stated: an exception inside a strategy never leaves the run, and the
\* run goes on exactly as if the strategy had returned nothing: after a probe
\* that raised, the same strategies are entered as after a probe that returned
\* null.
C12_ExceptionAsNothing ==
    /\ NoExceptionEscapes
    /\ ScriptRaised =>
         \E lg \in RunLogs :
            IsPrefix(extract_chart_data_selenium(TRUE, PyNone, lg).ran, calls)

-----------------------------------------------------------------------------
(* Claims on the keys of a record and on the x / y mapping *)

\* the value a record holds under the first of its keys that lower-cases into
\* the key set, None when it has no such key
FirstValue(rec, keyset) ==
    LET idx == {i \in 1..Len(rec[2]) : Lower(rec[2][i][1]) \in keyset} IN
    IF idx = {} THEN PyNone
    ELSE rec[2][CHOOSE i \in idx : \A j \in idx : i <= j][2]

HasSeveralKeysIn(rec, keyset) ==
    IsDict(rec) /\ Cardinality({i \in 1..Len(rec[2]) : Lower(rec[2][i][1]) \in keyset}) > 1

\* the candidate is one record: the point format_price_data made of it
OneRecordFormatted ==
    /\ entry = "shape" /\ pc \notin {"start", "validated"}
    /\ IsList(cand) /\ Len(cand[2]) = 1 /\ IsDict(cand[2][1])

\* C15 as stated: the date (the price) of a point is the value of the FIRST key
\* of the record that matches the date (the price) key set; later matching keys
\* do not override it.
C15_FirstMatchingKeyWins ==
    (OneRecordFormatted /\ HasBothKeys(cand[2][1]))
    => /\ Get(formatted, "labels") = List(<<FirstValue(cand[2][1], date_keys)>>)
       /\ Get(formatted, "data") = List(<<FirstValue(cand[2][1], price_keys)>>)

\* C15 amended: the date (the price) of a point is the value of the LAST key of
\* the record that matches the date (the price) key set, keys compared in lower
\* case: every later matching key overrides the earlier ones, and the record
\* gives no point when that last value is null.
C15_LastMatchingKeyWins ==
    (OneRecordFormatted /\ HasBothKeys(cand[2][1]))
    => LET date_val == LastValue(cand[2][1], date_keys)
           price_val == LastValue(cand[2][1], price_keys)
       IN  IF date_val # PyNone /\ price_val # PyNone
               THEN /\ Get(formatted, "labels") = List(<<date_val>>)
                    /\ Get(formatted, "data") = List(<<price_val>>)
           ELSE formatted = Formatted(List(<<>>), List(<<>>))

C15_Witness ==
    /\ OneRecordFormatted
    /\ HasSeveralKeysIn(cand[2][1], date_keys)
    /\ HasSeveralKeysIn(cand[2][1], price_keys)
    /\ FirstValue(cand[2][1], date_keys) # LastValue(cand[2][1], date_keys)
    /\ FirstValue(cand[2][1], price_keys) # LastValue(cand[2][1], price_keys)
    /\ Get(formatted, "labels") = List(<<LastValue(cand[2][1], date_keys)>>)
    /\ Get(formatted, "data") = List(<<LastValue(cand[2][1], price_keys)>>)

\* a mapping the validator accepts by its x / y rule alone
IsXYOnly(c) ==
    /\ IsDict(c)
    /\ {"x", "y"} \subseteq Keys(c)
    /\ ~({"labels", "data"} \subseteq Keys(c))
    /\ ~({"dates", "prices"} \subseteq Keys(c))

\* C18: a validated mapping with the keys x and y is normalized like labels /
\* data: x gives the dates and y the prices, so N entries in each give N points
\* and not an empty series.
C18_XYNormalizedLikeLabelsData ==
    (/\ entry = "shape" /\ pc \notin {"start", "validated"}
     /\ IsXYOnly(cand) /\ valid = Bool(TRUE)
     /\ IsList(Get(cand, "x")) /\ IsList(Get(cand, "y"))
     /\ Len(Get(cand, "x")[2]) = Len(Get(cand, "y")[2]))
    => /\ formatted = Formatted(Get(cand, "x"), Get(cand, "y"))
       /\ Len(Get(formatted, "labels")[2]) = Len(Get(cand, "x")[2])

-----------------------------------------------------------------------------
(* Claims on scrape_multiple_products *)

\* the titles and the points a record of URL u may hold when everything in it
\* was extracted from the page of u
OwnTitles(u) == {UnknownTitle, u}
OwnSeries(u) == {PageSeries(u), SampleSeries}

\* C14: the record returned for URL u holds a title and a price series
\* extracted from the page of u, whatever the other workers do with the drivers
\* of the pool meanwhile.
C14_RecordFromOwnPage ==
    entry = "multi" =>
        \A u \in Urls :
            futures[u][1] = "rec" =>
                /\ futures[u][2].title \in OwnTitles(u)
                /\ futures[u][2].price_data \in OwnSeries(u)

\* the records of the URLs whose future as_completed has yielded with a result
CollectedWithResult == {u \in collected : futures[u][1] = "rec"}

\* C16: a URL that fails does not stop the run: every URL is processed once
\* and counted once as successful or failed; when the pool has drained the two
\* counters add up to the number of URLs; all_data holds exactly the records of
\* the URLs that gave a result, each with a series that is not empty, whether
\* or not other URLs failed.
C16_EveryUrlCountedOnce ==
    entry = "multi" =>
        /\ successful + failed = Cardinality(collected)
        /\ successful = Len(all_data)
        /\ successful = Cardinality(CollectedWithResult)
        /\ \A i \in 1..Len(all_data) :
              /\ all_data[i].price_data # <<>>
              /\ \E u \in CollectedWithResult : futures[u][2] = all_data[i]
        /\ \A u \in CollectedWithResult :
              \E i \in 1..Len(all_data) : all_data[i] = futures[u][2]
        /\ \A u \in Urls : futures[u] # Pending => wpc[u] = "done"
        /\ pc \in {"save", "returned"} =>
              /\ collected = Urls
              /\ successful + failed = NumUrls
              /\ \A u \in Urls : wpc[u] = "done"

C16_Witness ==
    /\ entry = "multi" /\ pc = "returned"
    /\ successful >= 1 /\ failed >= 1
    /\ successful + failed = NumUrls
    /\ result = List(all_data)

\* the rows of the products of a sequence of records, product after product
RECURSIVE Blocks(_)
Blocks(data) ==
    IF data = <<>> THEN <<>>
    ELSE Blocks(SubSeq(data, 1, Len(data) - 1)) \o WriteProduct(<<>>, data[Len(data)])

\* C17: the writes to the output file are serialized: only the thread that
\* called scrape_multiple_products writes, it does so when no worker thread is
\* running any more, and the rows of a product form one block, the blocks in
\* the order of all_data.
C17_SingleWriter ==
    entry = "multi" =>
        /\ pc \in {"collect"} => csvFile = NoFile
        /\ pc = "save" => \A u \in Urls : wpc[u] = "done"
        /\ csvFile # NoFile => CsvRows = Blocks(SubSeq(all_data, 1, written))

C17_Witness ==
    /\ entry = "multi" /\ pc = "returned"
    /\ Len(all_data) = 2 /\ written = 2
    /\ all_data[1].title # all_data[2].title
    /\ Len(CsvRows) = Len(all_data[1].price_data) + Len(all_data[2].price_data)

====
